---- MODULE Spec2Model ----
(***************************************************************************)
(* Model of the expense_tracker program (programs/expense-tracker/src/     *)
(* lib.rs): three instructions, initialize_expense, modify_expense and     *)
(* delete_expense, acting on ExpenseAccount records kept in program        *)
(* derived accounts.  An account is modelled byte for byte: its data is    *)
(* the buffer of `space` bytes reserved by the init constraint, written    *)
(* by the account's serialization when an instruction exits and read back  *)
(* by its deserialization when an instruction loads it.  An instruction    *)
(* that returns an error is rolled back whole by the runtime.              *)
(***************************************************************************)
EXTENDS Integers, Sequences, FiniteSets, TLC

(***************************************************************************)
(* Bounds of the model.                                                    *)
(***************************************************************************)
\* merchant names tried are MERCHANT_NAME_CAP..MaxNameLen bytes long
MaxNameLen == 14

\* identities that submit transactions
Owners == {"A", "B"}
\* ids tried (u64 values)
Ids == {7, 99}
\* amounts tried (u64 values)
Amounts == {1, 500}

(***************************************************************************)
(* Program constants: the terms of `space` in InitializeExpense.           *)
(***************************************************************************)
DISCRIMINATOR_LEN == 8
U64_LEN == 8
PUBKEY_LEN == 32
STRING_PREFIX_LEN == 4
MERCHANT_NAME_CAP == 12
EXTRA_LEN == 1

\* a reservation without the last term
space_nospare ==
    DISCRIMINATOR_LEN + U64_LEN + PUBKEY_LEN
        + (STRING_PREFIX_LEN + MERCHANT_NAME_CAP) + U64_LEN

\* space = 8 + 8 + 32+ (4 + 12)+ 8 + 1
space ==
    DISCRIMINATOR_LEN + U64_LEN + PUBKEY_LEN
        + (STRING_PREFIX_LEN + MERCHANT_NAME_CAP) + U64_LEN + EXTRA_LEN

NameLens == MERCHANT_NAME_CAP..MaxNameLen
\* a merchant name of n bytes; its bytes depend on n so that two names differ
\* in content as well as in length
NameOf(n) == [k \in 1..n |-> 65 + ((k + n) % 26)]
Names == {NameOf(n) : n \in NameLens}

(***************************************************************************)
(* Byte encodings (borsh: integers little endian, a string as a u32 length *)
(* followed by its bytes).                                                 *)
(***************************************************************************)
\* the four low bytes of v, least significant first (v is below 2^31 here)
LowBytes(v) ==
    <<v % 256, (v \div 256) % 256, (v \div 65536) % 256, (v \div 16777216) % 256>>

\* u32 and u64 to_le_bytes: the bytes above the low four are zero here
u32_to_le_bytes(v) == LowBytes(v)
u64_to_le_bytes(v) == LowBytes(v) \o <<0, 0, 0, 0>>

\* u32 and u64 from_le_bytes
u32_from_le_bytes(b) == b[1] + 256 * (b[2] + 256 * (b[3] + 256 * b[4]))
u64_from_le_bytes(b) ==
    b[1] + 256 * (b[2] + 256 * (b[3] + 256 * (b[4] + 256 * (b[5]
        + 256 * (b[6] + 256 * (b[7] + 256 * b[8]))))))

\* the 32 bytes of an identity's public key
Key(o) == [k \in 1..PUBKEY_LEN |-> IF o = "A" THEN 10 + k ELSE 50 + k]

\* the account discriminator of ExpenseAccount (8 fixed bytes)
DISCRIMINATOR == [k \in 1..DISCRIMINATOR_LEN |-> 200 + k]

\* AccountSerialize: discriminator, then the fields in declaration order
try_serialize(rec) ==
    DISCRIMINATOR
        \o u64_to_le_bytes(rec.id)
        \o rec.owner
        \o u32_to_le_bytes(Len(rec.merchant_name))
        \o rec.merchant_name
        \o u64_to_le_bytes(rec.amount)

\* AccountDeserialize: reads the fields back, ignoring what follows them
try_deserialize(data) ==
    LET idAt == DISCRIMINATOR_LEN
        ownerAt == idAt + U64_LEN
        lenAt == ownerAt + PUBKEY_LEN
        nameAt == lenAt + STRING_PREFIX_LEN
        n == u32_from_le_bytes(SubSeq(data, lenAt + 1, nameAt))
    IN  [id |-> u64_from_le_bytes(SubSeq(data, idAt + 1, ownerAt)),
         owner |-> SubSeq(data, ownerAt + 1, lenAt),
         merchant_name |-> SubSeq(data, nameAt + 1, nameAt + n),
         amount |-> u64_from_le_bytes(SubSeq(data, nameAt + n + 1, nameAt + n + U64_LEN))]

\* a write that never runs out of buffer
Fits_always(rec, data) == Len(try_serialize(rec)) >= 0

\* does the serialized record fit the account's data buffer
Fits(rec, data) == Len(try_serialize(rec)) <= Len(data)

\* writing the serialized record over the start of the buffer; the bytes
\* after it keep their old values
WriteData(rec, data) ==
    try_serialize(rec) \o SubSeq(data, Len(try_serialize(rec)) + 1, Len(data))

\* rent.minimum_balance(space): the deposit an account of that size holds,
\* counted as one unit per byte
minimum_balance(sz) == sz

(***************************************************************************)
(* Addresses.                                                              *)
(***************************************************************************)
\* seeds = [b"expense", authority.key().as_ref(), id.to_le_bytes().as_ref()];
\* the derived address is identified with the authority and id it is derived
\* from: different seeds give different addresses
address(o, i) == <<o, i>>

Addresses == {address(o, i) : o \in Owners, i \in Ids}

\* an address that holds no account
Absent == [lamports |-> 0, data |-> <<>>]
IsPresent(acc) == acc.lamports > 0

\* an allocation one byte short of space
Allocated_short == [k \in 1..(space - 1) |-> 0]

\* the zeroed buffer of a newly allocated account
Allocated == [k \in 1..space |-> 0]

VARIABLES
    accounts,   \* address -> account (lamports, data) of the expense records
    balance,    \* identity -> lamports of its wallet
    last        \* the last transaction: instruction, inputs and outcome

vars == <<accounts, balance, last>>

\* the record a client reads at an address
get(addr) == try_deserialize(accounts[addr].data)

\* the lamports each wallet starts with: A can pay the deposit of a record
\* for every id, B the deposit of one record only
InitBalance ==
    [o \in Owners |->
        IF o = "A" THEN Cardinality(Ids) * minimum_balance(space)
        ELSE minimum_balance(space)]

Init ==
    /\ accounts = [a \in Addresses |-> Absent]
    /\ balance = InitBalance
    /\ last = [op |-> "none", result |-> "none", follows_delete |-> FALSE]

(***************************************************************************)
(* Transactions.  A transaction names the authority, says whether the      *)
(* authority signed it, passes an address as expense_account and gives the *)
(* instruction's arguments.                                                *)
(***************************************************************************)
Callers == [authority : Owners, signed : BOOLEAN, id : Ids]
Args == [merchant_name : Names, amount : Amounts]

\* the address derived from the caller's authority and id
Derived(c) == address(c.authority, c.id)

\* the addresses tried as expense_account: any address in a signed
\* transaction, the derived address in an unsigned one
AcctsTried(c) == IF c.signed THEN Addresses ELSE {Derived(c)}

\* the arguments tried: all of them in a signed transaction on the derived
\* address, one otherwise
ArgsTried(c, acct) ==
    IF c.signed /\ acct = Derived(c) THEN Args
    ELSE {[merchant_name |-> NameOf(MERCHANT_NAME_CAP), amount |-> 1]}

\* did the transaction before this one delete the account at acct
FollowsDelete(acct) ==
    last.op = "delete" /\ last.result = "Ok" /\ last.acct = acct

Tx(op, c, acct, a, result) ==
    [op |-> op, authority |-> c.authority, signed |-> c.signed, acct |-> acct,
     id |-> c.id, merchant_name |-> a.merchant_name, amount |-> a.amount,
     result |-> result, follows_delete |-> FollowsDelete(acct)]

\* a handler that stores the amount as id and the id as amount
InitializedRecord_swapped(c, a) ==
    [id |-> a.amount,
     owner |-> Key(c.authority),
     merchant_name |-> a.merchant_name,
     amount |-> c.id]

\* a handler that leaves the owner at its default, the zero key
InitializedRecord_noowner(c, a) ==
    [id |-> c.id,
     owner |-> [k \in 1..PUBKEY_LEN |-> 0],
     merchant_name |-> a.merchant_name,
     amount |-> a.amount]

\* the fields the handler of initialize_expense sets
InitializedRecord(c, a) ==
    [id |-> c.id,
     owner |-> Key(c.authority),
     merchant_name |-> a.merchant_name,
     amount |-> a.amount]

\* init that takes over an account already there (no in-use failure)
InitializeResult_reinit(c, acct, a) ==
    IF ~c.signed THEN "AccountNotSigner"
    ELSE IF acct # Derived(c) THEN "ConstraintSeeds"
    ELSE IF ~IsPresent(accounts[acct])
            /\ balance[c.authority] < minimum_balance(space)
         THEN "InsufficientFunds"
    ELSE IF ~Fits(InitializedRecord(c, a), Allocated) THEN "CapacityExceeded"
    ELSE "Ok"

\* init whose seeds leave out the id: any record of the authority makes the
\* address count as in use
InitializeResult_noid(c, acct, a) ==
    IF ~c.signed THEN "AccountNotSigner"
    ELSE IF acct # Derived(c) THEN "ConstraintSeeds"
    ELSE IF \E i \in Ids : IsPresent(accounts[address(c.authority, i)])
         THEN "AddressAlreadyInUse"
    ELSE IF balance[c.authority] < minimum_balance(space) THEN "InsufficientFunds"
    ELSE IF ~Fits(InitializedRecord(c, a), Allocated) THEN "CapacityExceeded"
    ELSE "Ok"

\* InitializeExpense: the authority signs; expense_account is the derived
\* address; init creates the account, paid by the authority; on exit the
\* record is serialized into the account
InitializeResult(c, acct, a) ==
    IF ~c.signed THEN "AccountNotSigner"
    ELSE IF acct # Derived(c) THEN "ConstraintSeeds"
    ELSE IF IsPresent(accounts[acct]) THEN "AddressAlreadyInUse"
    ELSE IF balance[c.authority] < minimum_balance(space) THEN "InsufficientFunds"
    ELSE IF ~Fits(InitializedRecord(c, a), Allocated) THEN "CapacityExceeded"
    ELSE "Ok"

initialize_expense(c, acct, a) ==
    LET result == InitializeResult(c, acct, a)
    IN  /\ last' = Tx("initialize", c, acct, a, result)
        /\ IF result = "Ok"
           THEN /\ accounts' = [accounts EXCEPT ![acct] =
                        [lamports |-> minimum_balance(space),
                         data |-> WriteData(InitializedRecord(c, a), Allocated)]]
                /\ balance' = [balance EXCEPT ![c.authority] =
                        @ - minimum_balance(space)]
           ELSE UNCHANGED <<accounts, balance>>

\* a handler that also overwrites the id
ModifiedRecord_setsid(rec, a) ==
    [rec EXCEPT !.merchant_name = a.merchant_name, !.amount = a.amount,
                !.id = a.amount]

\* the fields the handler of modify_expense sets, on the record loaded
ModifiedRecord(rec, a) ==
    [rec EXCEPT !.merchant_name = a.merchant_name, !.amount = a.amount]

\* ModifyExpense without the seeds constraint on expense_account
ModifyResult_noseeds(c, acct, a) ==
    IF ~c.signed THEN "AccountNotSigner"
    ELSE IF ~IsPresent(accounts[acct]) THEN "RecordNotFound"
    ELSE IF ~Fits(ModifiedRecord(get(acct), a), accounts[acct].data)
         THEN "CapacityExceeded"
    ELSE "Ok"

\* ModifyExpense: the authority signs; expense_account holds an
\* ExpenseAccount and is the derived address; on exit the record is
\* serialized into the account
ModifyResult(c, acct, a) ==
    IF ~c.signed THEN "AccountNotSigner"
    ELSE IF ~IsPresent(accounts[acct]) THEN "RecordNotFound"
    ELSE IF acct # Derived(c) THEN "ConstraintSeeds"
    ELSE IF ~Fits(ModifiedRecord(get(acct), a), accounts[acct].data)
         THEN "CapacityExceeded"
    ELSE "Ok"

\* modify_expense whose failed serialization keeps the bytes written before
\* the buffer ran out
modify_expense_partial(c, acct, a) ==
    /\ last' = Tx("modify", c, acct, a, ModifyResult(c, acct, a))
    /\ IF ModifyResult(c, acct, a) \in {"Ok", "CapacityExceeded"}
       THEN accounts' = [accounts EXCEPT ![acct].data =
                SubSeq(WriteData(ModifiedRecord(get(acct), a), @), 1, Len(@))]
       ELSE UNCHANGED accounts
    /\ UNCHANGED balance

modify_expense(c, acct, a) ==
    LET result == ModifyResult(c, acct, a)
    IN  /\ last' = Tx("modify", c, acct, a, result)
        /\ IF result = "Ok"
           THEN /\ accounts' = [accounts EXCEPT ![acct].data =
                        WriteData(ModifiedRecord(get(acct), a), @)]
                /\ UNCHANGED balance
           ELSE UNCHANGED <<accounts, balance>>

\* DeleteExpense that does not require an account at expense_account
DeleteResult_noexist(c, acct) ==
    IF ~c.signed THEN "AccountNotSigner"
    ELSE IF acct # Derived(c) THEN "ConstraintSeeds"
    ELSE "Ok"

\* DeleteExpense whose authority need not sign
DeleteResult_nosigner(c, acct) ==
    IF ~IsPresent(accounts[acct]) THEN "RecordNotFound"
    ELSE IF acct # Derived(c) THEN "ConstraintSeeds"
    ELSE "Ok"

\* DeleteExpense: the authority signs; expense_account holds an
\* ExpenseAccount and is the derived address; on exit the account is closed
\* and its lamports go to the authority
DeleteResult(c, acct) ==
    IF ~c.signed THEN "AccountNotSigner"
    ELSE IF ~IsPresent(accounts[acct]) THEN "RecordNotFound"
    ELSE IF acct # Derived(c) THEN "ConstraintSeeds"
    ELSE "Ok"

\* delete_expense without the close constraint: the handler alone
delete_expense_noclose(c, acct) ==
    /\ last' = [op |-> "delete", authority |-> c.authority,
                signed |-> c.signed, acct |-> acct, id |-> c.id,
                result |-> DeleteResult(c, acct),
                follows_delete |-> FollowsDelete(acct)]
    /\ UNCHANGED <<accounts, balance>>

\* delete_expense that closes the account without paying its lamports out
delete_expense_norefund(c, acct) ==
    /\ last' = [op |-> "delete", authority |-> c.authority,
                signed |-> c.signed, acct |-> acct, id |-> c.id,
                result |-> DeleteResult(c, acct),
                follows_delete |-> FollowsDelete(acct)]
    /\ IF DeleteResult(c, acct) = "Ok"
       THEN accounts' = [accounts EXCEPT ![acct] = Absent]
       ELSE UNCHANGED accounts
    /\ UNCHANGED balance

delete_expense(c, acct) ==
    LET result == DeleteResult(c, acct)
    IN  /\ last' = [op |-> "delete", authority |-> c.authority,
                    signed |-> c.signed, acct |-> acct, id |-> c.id,
                    result |-> result, follows_delete |-> FollowsDelete(acct)]
        /\ IF result = "Ok"
           THEN /\ accounts' = [accounts EXCEPT ![acct] = Absent]
                /\ balance' = [balance EXCEPT ![c.authority] =
                        @ + accounts[acct].lamports]
           ELSE UNCHANGED <<accounts, balance>>

Next ==
    \E c \in Callers : \E acct \in AcctsTried(c) :
        \/ \E a \in ArgsTried(c, acct) : initialize_expense(c, acct, a)
        \/ \E a \in ArgsTried(c, acct) : modify_expense(c, acct, a)
        \/ delete_expense(c, acct)

Spec == Init /\ [][Next]_vars

\* the transactions that take effect: those of Next that succeed.  A failed
\* transaction changes no account and no balance, so these steps reach the
\* same accounts and balances as Next does.
NextApplied ==
    \E c \in Callers : \E acct \in AcctsTried(c) :
        \/ \E a \in ArgsTried(c, acct) :
                initialize_expense(c, acct, a) /\ last'.result = "Ok"
        \/ \E a \in ArgsTried(c, acct) :
                modify_expense(c, acct, a) /\ last'.result = "Ok"
        \/ delete_expense(c, acct) /\ last'.result = "Ok"

SpecApplied == Init /\ [][NextApplied]_vars

(***************************************************************************)
(* Properties.                                                             *)
(***************************************************************************)
\* the last transaction was signed by its authority and passed the address
\* derived from the authority and the id
Regular(tx) == tx.signed /\ tx.acct = address(tx.authority, tx.id)

Succeeded(tx, op) == tx.op = op /\ tx.result = "Ok"

\* C1: after initialize_expense(A, i, n, a) succeeds, the record read at
\* address(A, i) is exactly id = i, owner = A, merchant_name = n, amount = a.
C1_CreateGetRoundTrip ==
    Succeeded(last, "initialize") =>
        /\ IsPresent(accounts[address(last.authority, last.id)])
        /\ get(address(last.authority, last.id)) =
                [id |-> last.id,
                 owner |-> Key(last.authority),
                 merchant_name |-> last.merchant_name,
                 amount |-> last.amount]

\* a create of a 12-byte name with amount 500 has succeeded
C1_Witness ==
    /\ Succeeded(last, "initialize")
    /\ Len(last.merchant_name) = MERCHANT_NAME_CAP
    /\ last.amount = 500
    /\ get(last.acct).amount = 500

\* C2: whenever the account at address(o, i) is created, changed or removed,
\* the transaction doing so was signed by o; and if a record was there, its
\* stored owner is the signer.
C2_AuthorizationIsolation ==
    [][\A o \in Owners, i \in Ids :
        accounts'[address(o, i)] # accounts[address(o, i)] =>
            /\ last'.signed
            /\ last'.authority = o
            /\ IsPresent(accounts[address(o, i)]) =>
                    get(address(o, i)).owner = Key(last'.authority)]_vars

\* B signed a transaction passing a record of A, and it failed
C2_Witness ==
    /\ last.op \in {"initialize", "modify", "delete"}
    /\ last.signed
    /\ last.authority = "B"
    /\ last.acct = address("A", 7)
    /\ IsPresent(accounts[last.acct])
    /\ get(last.acct).owner = Key("A")
    /\ last.result # "Ok"

\* C3: initialize_expense on an address that holds a record fails with
\* AddressAlreadyInUse and leaves the record (and everything else) unchanged.
C3_SecondCreateFails ==
    [][(/\ last'.op = "initialize"
        /\ Regular(last')
        /\ IsPresent(accounts[last'.acct]))
        => /\ last'.result = "AddressAlreadyInUse"
           /\ accounts' = accounts
           /\ balance' = balance]_vars

\* a create on a present record has failed, the record still there
C3_Witness ==
    /\ last.op = "initialize"
    /\ Regular(last)
    /\ last.result = "AddressAlreadyInUse"
    /\ IsPresent(accounts[last.acct])
    /\ get(last.acct).merchant_name # last.merchant_name

\* C4: modify_expense on a present record, with a name within the 12 bytes,
\* succeeds; when it succeeds the record has the new merchant_name and
\* amount and the owner and id it had, and nothing else changes.
C4_ModifyFrame ==
    [][(/\ last'.op = "modify"
        /\ Regular(last')
        /\ IsPresent(accounts[last'.acct]))
        => /\ Len(last'.merchant_name) <= MERCHANT_NAME_CAP
                => last'.result = "Ok"
           /\ last'.result = "Ok" =>
                /\ IsPresent(accounts'[last'.acct])
                /\ try_deserialize(accounts'[last'.acct].data) =
                        [id |-> get(last'.acct).id,
                         owner |-> get(last'.acct).owner,
                         merchant_name |-> last'.merchant_name,
                         amount |-> last'.amount]
                /\ \A other \in Addresses \ {last'.acct} :
                        accounts'[other] = accounts[other]
                /\ accounts'[last'.acct].lamports = accounts[last'.acct].lamports
                /\ balance' = balance]_vars

\* a modify has succeeded on one record while another record exists
C4_Witness ==
    /\ Succeeded(last, "modify")
    /\ get(last.acct).merchant_name = last.merchant_name
    /\ get(last.acct).amount = last.amount
    /\ get(last.acct).id = last.id
    /\ \E other \in Addresses \ {last.acct} : IsPresent(accounts[other])

\* C5: modify_expense and delete_expense on an address that holds no record
\* fail with RecordNotFound and change nothing.
C5_AbsentNotFound ==
    [][(/\ last'.op \in {"modify", "delete"}
        /\ Regular(last')
        /\ ~IsPresent(accounts[last'.acct]))
        => /\ last'.result = "RecordNotFound"
           /\ accounts' = accounts
           /\ balance' = balance]_vars

\* a modify on an empty address has failed and the address is still empty
C5_Witness ==
    /\ last.op = "modify"
    /\ Regular(last)
    /\ last.result = "RecordNotFound"
    /\ accounts[last.acct] = Absent

\* a create or modify that passes every check made before the record is
\* written: signed, on the derived address, the address empty and the
\* deposit payable (create) or the record present (modify)
Admitted(tx) ==
    /\ Regular(tx)
    /\ \/ /\ tx.op = "initialize"
          /\ ~IsPresent(accounts[tx.acct])
          /\ balance[tx.authority] >= minimum_balance(space)
       \/ /\ tx.op = "modify"
          /\ IsPresent(accounts[tx.acct])

Unchanged == accounts' = accounts /\ balance' = balance

\* C6 as stated: an admitted create or modify with a 12-byte name succeeds;
\* with a 13-byte name it fails with CapacityExceeded and changes nothing.
C6_Original ==
    [][(last'.op \in {"initialize", "modify"} /\ Admitted(last'))
        => /\ Len(last'.merchant_name) = 12 => last'.result = "Ok"
           /\ Len(last'.merchant_name) = 13 =>
                last'.result = "CapacityExceeded" /\ Unchanged]_vars

\* C6 as amended: an admitted create or modify with a name of up to 13 bytes
\* (the 12 of the name plus the spare byte of the reservation) succeeds; with
\* 14 bytes or more it fails with CapacityExceeded and changes nothing.
C6_CapacityBoundary ==
    [][(last'.op \in {"initialize", "modify"} /\ Admitted(last'))
        => /\ Len(last'.merchant_name) <= 13 => last'.result = "Ok"
           /\ Len(last'.merchant_name) >= 14 =>
                last'.result = "CapacityExceeded" /\ Unchanged]_vars

\* a modify with a 14-byte name has failed on a record that holds a
\* 13-byte name
C6_Witness ==
    /\ last.op = "modify"
    /\ Regular(last)
    /\ Len(last.merchant_name) = 14
    /\ last.result = "CapacityExceeded"
    /\ IsPresent(accounts[last.acct])
    /\ Len(get(last.acct).merchant_name) = 13

\* C7: a successful delete leaves the address empty, as it was before any
\* create; a modify or delete that follows it fails with RecordNotFound; and
\* an empty address stays empty until a create on it succeeds.
C7_DeletedIsAbsent ==
    [][/\ Succeeded(last', "delete") => accounts'[last'.acct] = Absent
       /\ (/\ last'.op \in {"modify", "delete"}
           /\ Regular(last')
           /\ last'.follows_delete)
           => last'.result = "RecordNotFound" /\ Unchanged
       /\ \A addr \in Addresses :
            (accounts[addr] = Absent /\ accounts'[addr] # Absent)
                => Succeeded(last', "initialize") /\ last'.acct = addr]_vars

\* a modify right after the delete of its record has failed
C7_Witness ==
    /\ last.op = "modify"
    /\ Regular(last)
    /\ last.follows_delete
    /\ last.result = "RecordNotFound"
    /\ accounts[last.acct] = Absent

\* C8: a create that follows the delete of the record at its address, with a
\* name within the 12 bytes, succeeds; the account then holds the
\* serialization of id, owner and the new name and amount, followed by zero
\* bytes only, as on an address never used.
C8_DeleteThenRecreate ==
    [][(/\ last'.op = "initialize"
        /\ Regular(last')
        /\ last'.follows_delete
        /\ Len(last'.merchant_name) <= MERCHANT_NAME_CAP)
        => /\ last'.result = "Ok"
           /\ try_deserialize(accounts'[last'.acct].data) =
                [id |-> last'.id,
                 owner |-> Key(last'.authority),
                 merchant_name |-> last'.merchant_name,
                 amount |-> last'.amount]
           /\ \A k \in 1..Len(accounts'[last'.acct].data) :
                k > 60 + Len(last'.merchant_name)
                    => accounts'[last'.acct].data[k] = 0]_vars

\* a create right after the delete of the record at its address has succeeded
C8_Witness ==
    /\ Succeeded(last, "initialize")
    /\ last.follows_delete
    /\ get(last.acct).merchant_name = last.merchant_name
    /\ get(last.acct).amount = last.amount

\* C9: an address goes from empty to present only by a successful create on
\* it, from present to empty only by a successful delete on it, and a present
\* record changes only by a successful modify on it; a create succeeds only
\* on an empty address, a modify or delete only on a present one.
C9_SlotStateMachine ==
    [][\A addr \in Addresses :
        LET before == IsPresent(accounts[addr])
            after == IsPresent(accounts'[addr])
            on(op) == Succeeded(last', op) /\ last'.acct = addr
        IN  /\ (~before /\ after) => on("initialize")
            /\ (before /\ ~after) => on("delete")
            /\ (before /\ after /\ accounts'[addr] # accounts[addr])
                    => on("modify")
            /\ (~before /\ ~after) => accounts'[addr] = accounts[addr]
            /\ on("initialize") => ~before /\ after
            /\ on("modify") => before /\ after
            /\ on("delete") => before /\ ~after]_vars

\* a delete has emptied one address while another record exists
C9_Witness ==
    /\ Succeeded(last, "delete")
    /\ ~IsPresent(accounts[last.acct])
    /\ \E other \in Addresses : IsPresent(accounts[other])

\* C10 as stated: every record's account holds 72 bytes.
C10_Original ==
    \A addr \in Addresses :
        IsPresent(accounts[addr]) => Len(accounts[addr].data) = 72

\* C10 as amended: every record's account holds 73 bytes, the 72 of the
\* layout and one more.
C10_SpaceReserved ==
    \A addr \in Addresses :
        IsPresent(accounts[addr]) => Len(accounts[addr].data) = 73

\* a record with a 12-byte name fills 72 bytes of an account of 73
C10_Witness ==
    \E addr \in Addresses :
        /\ IsPresent(accounts[addr])
        /\ Len(get(addr).merchant_name) = 12
        /\ Len(try_serialize(get(addr))) = 72
        /\ Len(accounts[addr].data) = 73

\* C11: a transaction that fails, with whatever error, leaves every account
\* and every balance as it was; a modify writes the new merchant_name and
\* the new amount together or neither of them.
C11_AtomicOnError ==
    [][/\ last'.result # "Ok" => Unchanged
       /\ (last'.op = "modify" /\ IsPresent(accounts[last'.acct])) =>
            LET old == get(last'.acct)
                new == try_deserialize(accounts'[last'.acct].data)
            IN  \/ new = old
                \/ /\ new.merchant_name = last'.merchant_name
                   /\ new.amount = last'.amount]_vars

\* a modify has failed for capacity on a record whose name and amount both
\* differ from the ones it was given
C11_Witness ==
    /\ last.op = "modify"
    /\ last.result = "CapacityExceeded"
    /\ IsPresent(accounts[last.acct])
    /\ get(last.acct).merchant_name # last.merchant_name
    /\ get(last.acct).amount # last.amount

\* the errors by which a caller is turned away: the authority did not sign,
\* or expense_account is not the address derived from the authority
InvalidCaller == {"AccountNotSigner", "ConstraintSeeds"}

\* C12 as stated: a transaction whose authority did not sign, or that passes
\* an address derived from another identity, fails with InvalidCaller and
\* changes nothing.
C12_Original ==
    [][(last'.op \in {"initialize", "modify", "delete"} /\ ~Regular(last'))
        => last'.result \in InvalidCaller /\ Unchanged]_vars

\* C12 as amended: such a transaction fails and changes nothing; the error is
\* InvalidCaller, except that a signed modify or delete passing an address
\* that holds no record fails with RecordNotFound.
C12_ForeignAddressRejected ==
    [][(last'.op \in {"initialize", "modify", "delete"} /\ ~Regular(last'))
        => /\ Unchanged
           /\ IF /\ last'.signed
                 /\ last'.op \in {"modify", "delete"}
                 /\ ~IsPresent(accounts[last'.acct])
              THEN last'.result = "RecordNotFound"
              ELSE last'.result \in InvalidCaller]_vars

\* B signed a delete passing a record of A, and it failed on the seeds
C12_Witness ==
    /\ last.op = "delete"
    /\ last.signed
    /\ last.authority = "B"
    /\ last.acct = address("A", last.id)
    /\ last.result = "ConstraintSeeds"
    /\ IsPresent(accounts[last.acct])
    /\ get(last.acct).owner = Key("A")

\* C13: the record held at address(o, i) has stored owner o and stored id i,
\* in every reachable state, whatever creates, modifies and deletes came
\* before.
C13_OwnerIdImmutable ==
    \A o \in Owners, i \in Ids :
        IsPresent(accounts[address(o, i)]) =>
            /\ get(address(o, i)).owner = Key(o)
            /\ get(address(o, i)).id = i

\* a record modified after its creation still has its owner and id
C13_Witness ==
    /\ Succeeded(last, "modify")
    /\ get(last.acct).owner = Key(last.authority)
    /\ get(last.acct).id = last.id
    /\ get(last.acct).merchant_name = last.merchant_name
    /\ Len(last.merchant_name) = 13

\* C14 as stated: the merchant_name of every record is at most 12 bytes.
C14_Original ==
    \A addr \in Addresses :
        IsPresent(accounts[addr]) => Len(get(addr).merchant_name) <= 12

\* C14 as amended: the merchant_name of every record is at most 13 bytes,
\* and the record never takes more than the 73 bytes reserved.
C14_NameWithinReservation ==
    \A addr \in Addresses :
        IsPresent(accounts[addr]) =>
            /\ Len(get(addr).merchant_name) <= 13
            /\ Len(try_serialize(get(addr))) <= 73
            /\ Len(accounts[addr].data) = 73

\* a record holds a 13-byte name written by a modify
C14_Witness ==
    /\ Succeeded(last, "modify")
    /\ Len(get(last.acct).merchant_name) = 13
    /\ Len(try_serialize(get(last.acct))) = 73

\* the lamports held by the records at the addresses derived from o
RECURSIVE DepositsOver(_, _)
DepositsOver(o, ids) ==
    IF ids = {} THEN 0
    ELSE LET i == CHOOSE x \in ids : TRUE
         IN  accounts[address(o, i)].lamports + DepositsOver(o, ids \ {i})

Deposits(o) == DepositsOver(o, Ids)

\* C15: a successful create takes the record's deposit from its authority, a
\* successful delete pays the whole deposit back to its authority, a modify
\* changes no balance; no transaction changes the balance of an identity
\* other than its authority; and each identity's balance plus the deposits
\* of its records stays what it was.
C15_DepositAccounting ==
    [][/\ Succeeded(last', "initialize") =>
            /\ accounts'[last'.acct].lamports > 0
            /\ balance'[last'.authority] =
                    balance[last'.authority] - accounts'[last'.acct].lamports
       /\ Succeeded(last', "delete") =>
            /\ accounts'[last'.acct].lamports = 0
            /\ balance'[last'.authority] =
                    balance[last'.authority] + accounts[last'.acct].lamports
       /\ last'.op = "modify" => balance' = balance
       /\ \A o \in Owners :
            /\ balance'[o] # balance[o] => last'.signed /\ last'.authority = o
            /\ balance'[o] + Deposits(o)' = balance[o] + Deposits(o)
            /\ balance'[o] + Deposits(o)' = InitBalance[o]]_vars

\* a delete has paid its authority back in full while the other identity
\* holds a record
C15_Witness ==
    /\ Succeeded(last, "delete")
    /\ balance[last.authority] = InitBalance[last.authority]
    /\ Deposits(last.authority) = 0
    /\ \E o \in Owners \ {last.authority} :
        Deposits(o) > 0 /\ balance[o] + Deposits(o) = InitBalance[o]

\* the transactions that target a slot: signed by the slot's owner and
\* passing the address derived from the owner and the id
SlotTxs ==
    {[op |-> op, authority |-> o, signed |-> TRUE, acct |-> address(o, i),
      id |-> i, merchant_name |-> a.merchant_name, amount |-> a.amount] :
        op \in {"initialize", "modify"}, o \in Owners, i \in Ids, a \in Args}
    \cup {[op |-> "delete", authority |-> o, signed |-> TRUE,
           acct |-> address(o, i), id |-> i] : o \in Owners, i \in Ids}

TxCaller(tx) == [authority |-> tx.authority, signed |-> tx.signed, id |-> tx.id]
TxArgs(tx) == [merchant_name |-> tx.merchant_name, amount |-> tx.amount]

\* the outcome tx has when it is executed in the current state
ResultOf(tx) ==
    IF tx.op = "initialize"
        THEN InitializeResult(TxCaller(tx), tx.acct, TxArgs(tx))
    ELSE IF tx.op = "modify"
        THEN ModifyResult(TxCaller(tx), tx.acct, TxArgs(tx))
    ELSE DeleteResult(TxCaller(tx), tx.acct)

\* the account at tx.acct once tx is executed in the current state
AccountAfter(tx) ==
    IF ResultOf(tx) # "Ok" THEN accounts[tx.acct]
    ELSE IF tx.op = "initialize"
        THEN [lamports |-> minimum_balance(space),
              data |-> WriteData(InitializedRecord(TxCaller(tx), TxArgs(tx)),
                                 Allocated)]
    ELSE IF tx.op = "modify"
        THEN [accounts[tx.acct] EXCEPT !.data =
                WriteData(ModifiedRecord(get(tx.acct), TxArgs(tx)), @)]
    ELSE Absent

\* what tx adds to the balance of its authority
BalanceChange(tx) ==
    IF ResultOf(tx) # "Ok" THEN 0
    ELSE IF tx.op = "initialize" THEN 0 - minimum_balance(space)
    ELSE IF tx.op = "modify" THEN 0
    ELSE accounts[tx.acct].lamports

\* the step is the execution of the transaction it records, and touches no
\* account but the one passed and no balance but the authority's
StepIsLast ==
    /\ last'.result = ResultOf(last')
    /\ accounts' = [accounts EXCEPT ![last'.acct] = AccountAfter(last')]
    /\ balance' = [balance EXCEPT ![last'.authority] = @ + BalanceChange(last')]

\* the outcome of tx as a function of the account passed (acc) and of the
\* balance of the authority (bal): the constraints of the three Accounts
\* structs in the order Anchor evaluates them
ResultIn(acc, bal, tx) ==
    IF ~tx.signed THEN "AccountNotSigner"
    ELSE IF tx.op = "initialize" THEN
        IF tx.acct # address(tx.authority, tx.id) THEN "ConstraintSeeds"
        ELSE IF IsPresent(acc) THEN "AddressAlreadyInUse"
        ELSE IF bal < minimum_balance(space) THEN "InsufficientFunds"
        ELSE IF ~Fits(InitializedRecord(TxCaller(tx), TxArgs(tx)), Allocated)
            THEN "CapacityExceeded"
        ELSE "Ok"
    ELSE IF ~IsPresent(acc) THEN "RecordNotFound"
    ELSE IF tx.acct # address(tx.authority, tx.id) THEN "ConstraintSeeds"
    ELSE IF tx.op = "modify"
            /\ ~Fits(ModifiedRecord(try_deserialize(acc.data), TxArgs(tx)),
                     acc.data)
        THEN "CapacityExceeded"
    ELSE "Ok"

\* the account passed once tx is executed on acc and bal
AccountAfterIn(acc, bal, tx) ==
    IF ResultIn(acc, bal, tx) # "Ok" THEN acc
    ELSE IF tx.op = "initialize"
        THEN [lamports |-> minimum_balance(space),
              data |-> WriteData(InitializedRecord(TxCaller(tx), TxArgs(tx)),
                                 Allocated)]
    ELSE IF tx.op = "modify"
        THEN [acc EXCEPT !.data =
                WriteData(ModifiedRecord(try_deserialize(acc.data), TxArgs(tx)),
                          @)]
    ELSE Absent

\* what tx adds to the balance of its authority when executed on acc and bal
BalanceChangeIn(acc, bal, tx) ==
    IF ResultIn(acc, bal, tx) # "Ok" THEN 0
    ELSE IF tx.op = "initialize" THEN 0 - minimum_balance(space)
    ELSE IF tx.op = "modify" THEN 0
    ELSE acc.lamports

\* the outcome and the effect of tx in the current state are those computed
\* from its own account and the balance of its authority alone
OutcomeIsLocal(tx) ==
    /\ ResultOf(tx) = ResultIn(accounts[tx.acct], balance[tx.authority], tx)
    /\ AccountAfter(tx) =
            AccountAfterIn(accounts[tx.acct], balance[tx.authority], tx)
    /\ BalanceChange(tx) =
            BalanceChangeIn(accounts[tx.acct], balance[tx.authority], tx)

\* tx has the same outcome and the same effect before and after the step
SameAcrossStep(tx) ==
    /\ ResultIn(accounts'[tx.acct], balance'[tx.authority], tx) = ResultOf(tx)
    /\ AccountAfterIn(accounts'[tx.acct], balance'[tx.authority], tx) =
            AccountAfter(tx)
    /\ BalanceChangeIn(accounts'[tx.acct], balance'[tx.authority], tx) =
            BalanceChange(tx)
    /\ accounts'[tx.acct] = accounts[tx.acct]

\* each authority can pay the deposit of every create among the two
DepositsCovered(tx1, tx2) ==
    \A o \in Owners :
        balance[o] >= minimum_balance(space)
            * Cardinality({t \in {tx1, tx2} :
                            t.op = "initialize" /\ t.authority = o})

\* C16 as stated: a transaction on one slot has the same outcome and the
\* same effect whether it runs before or after a transaction on another
\* slot, and leaves that slot's record unchanged.  (A step that changes
\* neither accounts nor balances changes no outcome; the outcome in the
\* state after the step is computed from that state's account and balance.)
C16_Original ==
    [][/\ StepIsLast
       /\ \A tx2 \in SlotTxs : OutcomeIsLocal(tx2)
       /\ Unchanged
          \/ \A tx2 \in SlotTxs :
                tx2.acct # last'.acct => SameAcrossStep(tx2)]_vars

\* C16 as amended: the same, for two transactions whose authorities can pay
\* the deposit of every create among the two.
C16_DistinctSlotsCommute ==
    [][/\ StepIsLast
       /\ \A tx2 \in SlotTxs : OutcomeIsLocal(tx2)
       /\ Unchanged
          \/ \A tx2 \in SlotTxs :
                (tx2.acct # last'.acct /\ DepositsCovered(last', tx2))
                    => SameAcrossStep(tx2)]_vars

\* a create has succeeded on one slot of A while the other slot of A holds a
\* record that a modify would change
C16_Witness ==
    /\ Succeeded(last, "initialize")
    /\ last.authority = "A"
    /\ \E tx2 \in SlotTxs :
        /\ tx2.op = "modify"
        /\ tx2.authority = "A"
        /\ tx2.acct # last.acct
        /\ ResultOf(tx2) = "Ok"
        /\ AccountAfter(tx2) # accounts[tx2.acct]

====
